---- MODULE Spec2Model ----
(***************************************************************************)
(* The segment-density aggregation of the hiking-route heatmap:            *)
(*   src/src/routeLoader.js            convertRoutesToHeatmapData          *)
(*   src/scripts/generateHeatmapData.js convertRoutesToCompactHeatmapData  *)
(*   src/src/App.jsx                   reprocessWithRadius,                *)
(*                                     randomizeIntensities                *)
(*                                                                         *)
(* Coordinates are JavaScript numbers in degrees.  They are modelled as    *)
(* integers counting 1/Unit degree, so that Math.round(v * precision) is   *)
(* the exact rounding of the rational v * precision / Unit.  A rounded     *)
(* coordinate Math.round(v * precision) / precision is again a number of    *)
(* 1/Unit degrees because every precision used by the code divides Unit.   *)
(* Math.round may return -0; -0 compares equal to 0 and prints as "0", so  *)
(* it is not told apart from 0.                                            *)
(***************************************************************************)
EXTENDS Integers, Sequences, FiniteSets, TLC

\* ------------------------------------------------------------------ bounds
MaxPoints == 5      \* points parsed in total, over all tracks
RandSteps == 1      \* Math.random() yields r / RandSteps, r in 0..RandSteps

\* --------------------------------------------------------------- constants
Unit == 1000000                 \* coordinate resolution: 1/Unit degree
GeneratorPrecision == 10000     \* the precision hard-coded in both converters
GeneratorCap == 10              \* Math.min(density, 10) in both converters
DefaultMaxDensity == 10         \* useState(10)
DefaultOverlapRadius == 1000    \* useState(1000)
Undefined == -1                 \* the routeId, trackId and segmentId a feature lacks

\* The options of the "Overlap Radius" select.
Precisions == {100000, 10000, 1000, 500, 100}

\* densityCap arguments: the default, and two small caps that bind on the
\* densities short inputs reach.
Caps == {1, 2, DefaultMaxDensity}

\* The routes directory: two GPX files, holding two tracks between them.
RouteFiles == <<"a.gpx", "b.gpx">>

\* The points GPX parsing may deliver, [lon, lat] in 1/Unit degree.  The two
\* points differ in latitude at precision 10000 and beyond, coincide at 1000,
\* differ in longitude only at 500 and coincide again at 100.
PointA == [lon |-> 600, lat |-> 40]
PointB == [lon |-> 1200, lat |-> 60]
Pool == {PointA, PointB}

\* ----------------------------------------------------------------- helpers
Min(a, b) == IF a < b THEN a ELSE b
Max(a, b) == IF a > b THEN a ELSE b

\* Math.round of the rational num / den (den > 0): floor(x + 1/2).
MathRound(num, den) == (2 * num + den) \div (2 * den)

\* Math.round(v * precision) / precision, in 1/Unit degree.
RoundCoord(v, precision) == (MathRound(v * precision, Unit) * Unit) \div precision

\* A key that orders the endpoints by latitude alone, without the
\* (lat1 === lat2 && lon1 < lon2) tie-break.
segmentKey_LatOnly(p1, p2, precision) ==
    LET lat1 == RoundCoord(p1.lat, precision)
        lon1 == RoundCoord(p1.lon, precision)
        lat2 == RoundCoord(p2.lat, precision)
        lon2 == RoundCoord(p2.lon, precision)
    IN  IF lat1 < lat2
        THEN <<lat1, lon1, lat2, lon2>>
        ELSE <<lat2, lon2, lat1, lon1>>

\* A key that keeps the endpoints in the order of travel.
segmentKey_Directed(p1, p2, precision) ==
    <<RoundCoord(p1.lat, precision), RoundCoord(p1.lon, precision),
      RoundCoord(p2.lat, precision), RoundCoord(p2.lon, precision)>>

\* The bucket key of the segment from p1 to p2 ([lon, lat] records):
\*   lat1 < lat2 || (lat1 === lat2 && lon1 < lon2)
\*     ? `${lat1},${lon1}-${lat2},${lon2}` : `${lat2},${lon2}-${lat1},${lon1}`
\* The template string is one-to-one on the four numbers, so the key is the
\* tuple of the four rounded coordinates in the order the string lists them.
segmentKey(p1, p2, precision) ==
    LET lat1 == RoundCoord(p1.lat, precision)
        lon1 == RoundCoord(p1.lon, precision)
        lat2 == RoundCoord(p2.lat, precision)
        lon2 == RoundCoord(p2.lon, precision)
    IN  IF lat1 < lat2 \/ (lat1 = lat2 /\ lon1 < lon2)
        THEN <<lat1, lon1, lat2, lon2>>
        ELSE <<lat2, lon2, lat1, lon1>>

\* segmentDensity[key] || dflt
Lookup(map, key, dflt) ==
    IF key \in DOMAIN map
    THEN LET value == map[key] IN IF value # 0 THEN value ELSE dflt
    ELSE dflt

\* map[key] = (map[key] || 0) + 1.  (f @@ <<>> is f: it is written where the
\* code builds an object once and reads it many times.)
Increment(map, key) ==
    [k \in DOMAIN map \cup {key} |->
        IF k = key THEN Lookup(map, key, 0) + 1 ELSE map[k]] @@ <<>>

EmptyMap == [k \in {} |-> 0]

\* ------------------------------------------------- the two-pass converters
\* A loop that stops one pair early: i < track.points.length - 2.
RECURSIVE TrackLoop_StopsEarly(_, _, _, _, _)
TrackLoop_StopsEarly(track, routeIndex, trackIndex, i, acc) ==
    IF i < Len(track) - 2
    THEN TrackLoop_StopsEarly(track, routeIndex, trackIndex, i + 1,
             Append(acc, [routeIndex |-> routeIndex, trackIndex |-> trackIndex,
                          i |-> i, point1 |-> track[i + 1], point2 |-> track[i + 2]]))
    ELSE acc

\* for (let i = 0; i < track.points.length - 1; i++): the (point1, point2)
\* pairs of one track, i counted from 0 as in the code.
RECURSIVE TrackLoop(_, _, _, _, _)
TrackLoop(track, routeIndex, trackIndex, i, acc) ==
    IF i < Len(track) - 1
    THEN TrackLoop(track, routeIndex, trackIndex, i + 1,
             Append(acc, [routeIndex |-> routeIndex, trackIndex |-> trackIndex,
                          i |-> i, point1 |-> track[i + 1], point2 |-> track[i + 2]]))
    ELSE acc

\* route.tracks.forEach((track, trackIndex) => ...)
RECURSIVE TracksLoop(_, _, _, _)
TracksLoop(route, routeIndex, trackIndex, acc) ==
    IF trackIndex < Len(route)
    THEN TracksLoop(route, routeIndex, trackIndex + 1,
             TrackLoop(route[trackIndex + 1], routeIndex, trackIndex, 0, acc))
    ELSE acc

\* routes.forEach((route, routeIndex) => ...): every loop body execution of
\* one pass, in execution order.
RECURSIVE RoutesLoop(_, _, _)
RoutesLoop(rs, routeIndex, acc) ==
    IF routeIndex < Len(rs)
    THEN RoutesLoop(rs, routeIndex + 1, TracksLoop(rs[routeIndex + 1], routeIndex, 0, acc))
    ELSE acc

\* First pass of both converters: segmentDensity after the loops.
RECURSIVE convertFirstPass(_, _, _)
convertFirstPass(steps, n, segmentDensity) ==
    IF n > Len(steps) THEN segmentDensity
    ELSE convertFirstPass(steps, n + 1,
             Increment(segmentDensity,
                       segmentKey(steps[n].point1, steps[n].point2, GeneratorPrecision)))

\* convertRoutesToHeatmapData(routes): the GeoJSON features of the second pass.
convertRoutesToHeatmapData(rs) ==
    LET steps == RoutesLoop(rs, 0, <<>>)
        segmentDensity == convertFirstPass(steps, 1, EmptyMap)
    IN  [n \in 1 .. Len(steps) |->
            LET s == steps[n]
                density == Lookup(segmentDensity,
                                  segmentKey(s.point1, s.point2, GeneratorPrecision), 1)
            IN  [id |-> <<s.routeIndex, s.trackIndex, s.i>>,
                 intensity |-> Min(density, GeneratorCap),
                 density |-> density,
                 routeId |-> s.routeIndex,
                 trackId |-> s.trackIndex,
                 segmentId |-> s.i,
                 coordinates |-> <<s.point1, s.point2>>]]

\* A converter that stores the density without Math.min(density, 10).
convertRoutesToCompactHeatmapData_StoresDensity(rs) ==
    LET steps == RoutesLoop(rs, 0, <<>>)
        segmentDensity == convertFirstPass(steps, 1, EmptyMap)
    IN  [n \in 1 .. Len(steps) |->
            LET s == steps[n]
            IN  <<RoundCoord(s.point1.lon, GeneratorPrecision),
                  RoundCoord(s.point1.lat, GeneratorPrecision),
                  RoundCoord(s.point2.lon, GeneratorPrecision),
                  RoundCoord(s.point2.lat, GeneratorPrecision),
                  Lookup(segmentDensity,
                         segmentKey(s.point1, s.point2, GeneratorPrecision), 1)>>]

\* convertRoutesToCompactHeatmapData(routes): [lon1, lat1, lon2, lat2, intensity]
\* with the rounded coordinates.
convertRoutesToCompactHeatmapData(rs) ==
    LET steps == RoutesLoop(rs, 0, <<>>)
        segmentDensity == convertFirstPass(steps, 1, EmptyMap)
    IN  [n \in 1 .. Len(steps) |->
            LET s == steps[n]
                density == Lookup(segmentDensity,
                                  segmentKey(s.point1, s.point2, GeneratorPrecision), 1)
            IN  <<RoundCoord(s.point1.lon, GeneratorPrecision),
                  RoundCoord(s.point1.lat, GeneratorPrecision),
                  RoundCoord(s.point2.lon, GeneratorPrecision),
                  RoundCoord(s.point2.lat, GeneratorPrecision),
                  Min(density, GeneratorCap)>>]

\* ----------------------------------------------------- reprocessWithRadius
\* A first pass that counts under the keys of the generator's precision.
RECURSIVE reprocessFirstPass_FixedPrecision(_, _, _, _)
reprocessFirstPass_FixedPrecision(data, precision, n, segmentDensity) ==
    IF n > Len(data) THEN segmentDensity
    ELSE reprocessFirstPass_FixedPrecision(data, precision, n + 1,
             Increment(segmentDensity,
                       segmentKey(data[n].coordinates[1], data[n].coordinates[2],
                                  GeneratorPrecision)))

\* First pass: data.forEach(feature => segmentDensity[key] = ... + 1).
RECURSIVE reprocessFirstPass(_, _, _, _)
reprocessFirstPass(data, precision, n, segmentDensity) ==
    IF n > Len(data) THEN segmentDensity
    ELSE reprocessFirstPass(data, precision, n + 1,
             Increment(segmentDensity,
                       segmentKey(data[n].coordinates[1], data[n].coordinates[2], precision)))

\* A second pass that writes the rounded coordinates into the geometry.
reprocessWithRadius_SnapsGeometry(data, precision, densityCap) ==
    LET segmentDensity == reprocessFirstPass(data, precision, 1, EmptyMap)
    IN  [n \in 1 .. Len(data) |->
            LET density == Lookup(segmentDensity,
                    segmentKey(data[n].coordinates[1], data[n].coordinates[2], precision), 1)
                snap(point) == [lon |-> RoundCoord(point.lon, precision),
                                lat |-> RoundCoord(point.lat, precision)]
            IN  [data[n] EXCEPT !.intensity = Min(density, densityCap),
                                !.density = density,
                                !.coordinates = <<snap(@[1]), snap(@[2])>>]]

\* A second pass that does not cap the intensity.
reprocessWithRadius_Uncapped(data, precision, densityCap) ==
    LET segmentDensity == reprocessFirstPass(data, precision, 1, EmptyMap)
    IN  [n \in 1 .. Len(data) |->
            LET density == Lookup(segmentDensity,
                    segmentKey(data[n].coordinates[1], data[n].coordinates[2], precision), 1)
            IN  [data[n] EXCEPT !.intensity = density, !.density = density]]

\* A second pass that caps the density as well as the intensity.
reprocessWithRadius_CapsDensity(data, precision, densityCap) ==
    LET segmentDensity == reprocessFirstPass(data, precision, 1, EmptyMap)
    IN  [n \in 1 .. Len(data) |->
            LET density == Lookup(segmentDensity,
                    segmentKey(data[n].coordinates[1], data[n].coordinates[2], precision), 1)
            IN  [data[n] EXCEPT !.intensity = Min(density, densityCap),
                                !.density = Min(density, densityCap)]]

\* A single pass: every feature gets the count its bucket has reached when the
\* loop comes to it.
reprocessWithRadius_SinglePass(data, precision, densityCap) ==
    [n \in 1 .. Len(data) |->
        LET density == Lookup(reprocessFirstPass(SubSeq(data, 1, n), precision, 1, EmptyMap),
                segmentKey(data[n].coordinates[1], data[n].coordinates[2], precision), 1)
        IN  [data[n] EXCEPT !.intensity = Min(density, densityCap),
                            !.density = density]]

\* Second pass: data.map(feature => ({...feature, properties: {...}})).
reprocessWithRadius(data, precision, densityCap) ==
    LET segmentDensity == reprocessFirstPass(data, precision, 1, EmptyMap)
    IN  [n \in 1 .. Len(data) |->
            LET density == Lookup(segmentDensity,
                    segmentKey(data[n].coordinates[1], data[n].coordinates[2], precision), 1)
            IN  [data[n] EXCEPT !.intensity = Min(density, densityCap),
                                !.density = density]]

\* ---------------------------------------------------- randomizeIntensities
\* `${Math.round(coord[1] * precision)},${Math.round(coord[0] * precision)}`
pointKey(coord, precision) ==
    <<MathRound(coord.lat * precision, Unit), MathRound(coord.lon * precision, Unit)>>

\* routeGroups[routeId]: the features of one route, in data order.
routeGroups(data) ==
    [routeId \in {data[n].routeId : n \in 1 .. Len(data)} |->
        SelectSeq(data, LAMBDA feature : feature.routeId = routeId)]

\* pointToRoutes[key]: the set of route ids whose features touch the point.
pointToRoutes(data, precision) ==
    LET touches(n, key) == \E c \in 1 .. 2 : pointKey(data[n].coordinates[c], precision) = key
    IN  [key \in {pointKey(data[n].coordinates[c], precision) :
                      n \in 1 .. Len(data), c \in 1 .. 2} |->
            {data[n].routeId : n \in {m \in 1 .. Len(data) : touches(m, key)}}] @@ <<>>

\* intersectionPoints: the points used by more than one route.
intersectionPoints(ptr) == {key \in DOMAIN ptr : Cardinality(ptr[key]) > 1}

\* A split that closes a sub-segment at a feature starting at an
\* intersection point (coords[0] in place of coords[1]).
RECURSIVE splitRoute_AtStart(_, _, _, _, _, _)
splitRoute_AtStart(route, precision, ips, index, currentSegment, acc) ==
    IF index > Len(route) THEN acc
    ELSE LET pushed == Append(currentSegment, route[index])
             startPointKey == pointKey(route[index].coordinates[1], precision)
         IN  IF startPointKey \in ips \/ index = Len(route)
             THEN splitRoute_AtStart(route, precision, ips, index + 1, <<>>,
                                     Append(acc, pushed))
             ELSE splitRoute_AtStart(route, precision, ips, index + 1, pushed, acc)

\* route.forEach((feature, index) => ...): the sub-segments of one route.
RECURSIVE splitRoute(_, _, _, _, _, _)
splitRoute(route, precision, ips, index, currentSegment, acc) ==
    IF index > Len(route) THEN acc
    ELSE LET pushed == Append(currentSegment, route[index])
             endPointKey == pointKey(route[index].coordinates[2], precision)
         IN  IF endPointKey \in ips \/ index = Len(route)
             THEN IF Len(pushed) > 0
                  THEN splitRoute(route, precision, ips, index + 1, <<>>, Append(acc, pushed))
                  ELSE splitRoute(route, precision, ips, index + 1, pushed, acc)
             ELSE splitRoute(route, precision, ips, index + 1, pushed, acc)

\* routeSegments[routeId]: the list of sub-segments of each route.
routeSegments(data, precision) ==
    LET groups == routeGroups(data)
        ips == intersectionPoints(pointToRoutes(data, precision))
    IN  [routeId \in DOMAIN groups |->
            splitRoute(groups[routeId], precision, ips, 1, <<>>, <<>>)] @@ <<>>

\* Number of sub-segments of the routes with an id below routeId: Object.keys
\* lists the integer-like route ids in ascending order.
RECURSIVE SegmentsBefore(_, _, _)
SegmentsBefore(rs, ids, routeId) ==
    IF ids = {} THEN 0
    ELSE LET id == CHOOSE x \in ids : TRUE
         IN  (IF id < routeId THEN Len(rs[id]) ELSE 0) + SegmentsBefore(rs, ids \ {id}, routeId)

\* Number of Math.random() calls of one invocation: one per sub-segment.
RECURSIVE NumDrawsOf(_, _)
NumDrawsOf(rs, ids) ==
    IF ids = {} THEN 0
    ELSE LET id == CHOOSE x \in ids : TRUE
         IN  Len(rs[id]) + NumDrawsOf(rs, ids \ {id})

NumDraws(rs) == NumDrawsOf(rs, DOMAIN rs)

\* An overlapCount that looks at the second endpoint of each feature only.
overlapCount_EndOnly(segment, ptr, precision) ==
    LET sizes == {Cardinality(ptr[pointKey(segment[j].coordinates[2], precision)]) :
                      j \in 1 .. Len(segment)}
    IN  CHOOSE m \in sizes \cup {1} : \A x \in sizes \cup {1} : x <= m

\* An overlapCount that looks at the first endpoint of each feature only.
overlapCount_FirstEndpoints(segment, ptr, precision) ==
    LET sizes == {Cardinality(ptr[pointKey(segment[j].coordinates[1], precision)]) :
                      j \in 1 .. Len(segment)}
    IN  CHOOSE m \in sizes \cup {1} : \A x \in sizes \cup {1} : x <= m

\* overlapCount of one sub-segment: starts at 1, raised to the size of
\* pointToRoutes at each endpoint of each of its features.
overlapCount(segment, ptr, precision) ==
    LET sizes == {Cardinality(ptr[pointKey(segment[j].coordinates[c], precision)]) :
                      j \in 1 .. Len(segment), c \in 1 .. 2}
    IN  CHOOSE m \in sizes \cup {1} : \A x \in sizes \cup {1} : x <= m

\* An intensity drawn around the overlap count itself, without Math.min.
drawIntensity_Unclamped(overlap, densityCap, r) ==
    Max(1, MathRound(10 * RandSteps * overlap + 4 * r - 2 * RandSteps, 10 * RandSteps))

\* Math.max(1, Math.min(densityCap, Math.round(baseIntensity + randomVariation)))
\* with randomVariation = Math.random() * 0.4 - 0.2 and Math.random() = r / RandSteps.
drawIntensity(overlap, densityCap, r) ==
    LET baseIntensity == Min(overlap, densityCap)
        rounded == MathRound(10 * RandSteps * baseIntensity + 4 * r - 2 * RandSteps,
                             10 * RandSteps)
    IN  Max(1, Min(densityCap, rounded))

\* The keys `${routeId}-${segmentIndex}` of segmentIntensities.
segmentKeys(rs) ==
    UNION {{<<routeId, i>> : i \in 0 .. Len(rs[routeId]) - 1} : routeId \in DOMAIN rs}

\* overlapCount of every sub-segment, by its key.
overlapCounts(rs, ptr, precision) ==
    [key \in segmentKeys(rs) |-> overlapCount(rs[key[1]][key[2] + 1], ptr, precision)]
        @@ <<>>

\* The position of every sub-segment in the order of the Math.random() calls.
drawOrder(rs) ==
    [key \in segmentKeys(rs) |-> SegmentsBefore(rs, DOMAIN rs, key[1]) + key[2] + 1]

\* segmentIntensities[`${routeId}-${segmentIndex}`]; rnd[k] is the value of the
\* k-th Math.random() call.
segmentIntensities(overlaps, order, densityCap, rnd) ==
    [key \in DOMAIN overlaps |-> drawIntensity(overlaps[key], densityCap, rnd[order[key]])]
        @@ <<>>

\* Feature ids are sequences of the numbers the id is made of: <<routeIndex,
\* trackIndex, i>> for `${routeIndex}-${trackIndex}-${i}`, <<index>> for the
\* index of a tuple.  NaN, the one id that === does not find equal to itself,
\* is the sequence of no number.
NaN == <<>>

\* f.id === feature.id
StrictEquals(a, b) == a # NaN /\ b # NaN /\ a = b

\* Every segmentIntensities object the loop can build: Math.random() is called
\* once for each key, so each key takes, independently of the others, one of
\* the intensities its overlap count allows.
possibleIntensities(overlaps, densityCap) ==
    LET allowed == [key \in DOMAIN overlaps |->
                       {drawIntensity(overlaps[key], densityCap, r) : r \in 0 .. RandSteps}]
                   @@ <<>>
    IN  {si \in [DOMAIN overlaps -> UNION {allowed[key] : key \in DOMAIN overlaps}] :
            \A key \in DOMAIN overlaps : si[key] \in allowed[key]}

\* A lookup that counts the sub-segments from 1 where segmentIntensities
\* counts them from 0.
applyIntensities_OneBased(data, rs, si) ==
    [n \in 1 .. Len(data) |->
        LET feature == data[n]
            routeId == feature.routeId
            segments == IF routeId \in DOMAIN rs THEN rs[routeId] ELSE <<>>
            hits == {i \in 1 .. Len(segments) :
                        \E j \in 1 .. Len(segments[i]) :
                            StrictEquals(segments[i][j].id, feature.id)}
            segmentIndex == IF hits = {} THEN 0
                            ELSE CHOOSE i \in hits : \A h \in hits : i <= h
        IN  [feature EXCEPT !.intensity = Lookup(si, <<routeId, segmentIndex>>, 1)]]

\* The final data.map: look the feature up by id in its route's sub-segments.
applyIntensities(data, rs, si) ==
    [n \in 1 .. Len(data) |->
        LET feature == data[n]
            routeId == feature.routeId
            segments == IF routeId \in DOMAIN rs THEN rs[routeId] ELSE <<>>
            hits == {i \in 1 .. Len(segments) :
                        \E j \in 1 .. Len(segments[i]) :
                            StrictEquals(segments[i][j].id, feature.id)}
            segmentIndex == IF hits = {} THEN 0
                            ELSE (CHOOSE i \in hits : \A h \in hits : i <= h) - 1
        IN  [feature EXCEPT !.intensity = Lookup(si, <<routeId, segmentIndex>>, 1)]]

randomizeIntensities(data, precision, densityCap, rnd) ==
    LET rs == routeSegments(data, precision)
        ptr == pointToRoutes(data, precision)
    IN  applyIntensities(data, rs,
            segmentIntensities(overlapCounts(rs, ptr, precision), drawOrder(rs), densityCap, rnd))

\* The sequences of values Math.random() may return during one invocation.
DrawSequences(data, precision) ==
    [1 .. NumDraws(routeSegments(data, precision)) -> 0 .. RandSteps]

\* ------------------------------------------------------------------- state
VARIABLES
    routes,                 \* the parsed GPX files: a list of routes, each a list
                            \* of tracks, each a list of points
    pc,                     \* "source", "file", "loaded", "processed", "randomized"
    compactFeatures,        \* the output of convertRoutesToCompactHeatmapData
    originalHeatmapData,    \* the features handed to reprocessWithRadius
    overlapRadius,          \* the precision argument of the last call
    maxDensity,             \* the densityCap argument of the last call
    processedHeatmapData,   \* the result of reprocessWithRadius
    dataToUse,              \* the features handed to the map source
    intensities             \* segmentIntensities of that randomizeIntensities call

\* The GPX loaders: loadRoutes and processFilesInParallel.
VARIABLES
    loader,                 \* the loader called: "none", "loadRoutes",
                            \* "processFilesInParallel"
    files,                  \* the file names it was given
    concurrency,            \* the concurrency argument
    chunkStart,             \* the loop variable i: files before it are done
    status,                 \* per file: "waiting", "inflight", "route", "null",
                            \* "rejected"
    calls,                  \* per file: how many parses or fetches were started
    settled,                \* the files in the order their promises settled
    results,                \* the results array: <<file, status>> in push order
    returned,               \* the files whose routes the loader returned
    reported,               \* the files named by console.warn / console.error
    loaderPc                \* "idle", "running", "done"

\* The recompute effect of App.
VARIABLES
    randomizeIntensity,     \* the Randomize checkbox
    isProcessing,           \* the processing indicator; disables the controls
    timers,                 \* the pending setTimeout callbacks, oldest first,
                            \* each with the values its closure captured
    unmounted,              \* the cleanup of the map effect has run
    lateCalls               \* what timer callbacks have called since then

dataVars == <<routes, pc, compactFeatures, originalHeatmapData, overlapRadius, maxDensity,
              processedHeatmapData, dataToUse, intensities>>

loaderVars == <<loader, files, concurrency, chunkStart, status, calls, settled, results,
                returned, reported, loaderPc>>

unmountVars == <<unmounted, lateCalls>>

effectVars == <<randomizeIntensity, isProcessing, timers, unmountVars>>

vars == <<dataVars, loaderVars, effectVars>>

RECURSIVE SumLen(_)
SumLen(seqs) == IF seqs = <<>> THEN 0 ELSE Len(Head(seqs)) + SumLen(Tail(seqs))

NumTracks == SumLen(routes)
RECURSIVE SumPoints(_)
SumPoints(rs) == IF rs = <<>> THEN 0 ELSE SumLen(Head(rs)) + SumPoints(Tail(rs))

NumPoints == SumPoints(routes)

\* No loader has been called.
InitLoader ==
    /\ loader = "none"
    /\ files = <<>>
    /\ concurrency = 1
    /\ chunkStart = 0
    /\ status = <<>>
    /\ calls = <<>>
    /\ settled = <<>>
    /\ results = <<>>
    /\ returned = <<>>
    /\ reported = {}
    /\ loaderPc = "idle"

\* useState(false) for randomizeIntensity and isProcessing; no timer is pending.
InitEffect ==
    /\ randomizeIntensity = FALSE
    /\ isProcessing = FALSE
    /\ timers = <<>>
    /\ unmounted = FALSE
    /\ lateCalls = {}

\* useState([]) for the data, the defaults for the configuration.
InitData ==
    /\ routes = <<>>
    /\ pc = "source"
    /\ compactFeatures = <<>>
    /\ originalHeatmapData = <<>>
    /\ overlapRadius = DefaultOverlapRadius
    /\ maxDensity = DefaultMaxDensity
    /\ processedHeatmapData = <<>>
    /\ dataToUse = <<>>
    /\ intensities = EmptyMap

Init == InitData /\ InitLoader /\ InitEffect

\* ----------------------------------------------------------------- actions
\* Track Source: GPX parsing delivers a further route (file), a further track
\* of the last route, or a further point of the last track.
ParseRoute ==
    /\ pc = "source"
    /\ Len(routes) < Len(RouteFiles)
    /\ routes' = Append(routes, <<>>)
    /\ UNCHANGED <<pc, compactFeatures, originalHeatmapData, overlapRadius, maxDensity,
                   processedHeatmapData, dataToUse, intensities>>
    /\ UNCHANGED <<loaderVars, effectVars>>

ParseTrack ==
    /\ pc = "source"
    /\ Len(routes) > 0
    /\ NumTracks < Len(RouteFiles)
    /\ routes' = [routes EXCEPT ![Len(routes)] = Append(@, <<>>)]
    /\ UNCHANGED <<pc, compactFeatures, originalHeatmapData, overlapRadius, maxDensity,
                   processedHeatmapData, dataToUse, intensities>>
    /\ UNCHANGED <<loaderVars, effectVars>>

ParsePoint(point) ==
    /\ pc = "source"
    /\ Len(routes) > 0
    /\ Len(routes[Len(routes)]) > 0
    /\ NumPoints < MaxPoints
    /\ routes' = [routes EXCEPT ![Len(routes)] =
                     [@ EXCEPT ![Len(@)] = Append(@, point)]]
    /\ UNCHANGED <<pc, compactFeatures, originalHeatmapData, overlapRadius, maxDensity,
                   processedHeatmapData, dataToUse, intensities>>
    /\ UNCHANGED <<loaderVars, effectVars>>

\* convertRoutesToHeatmapData(routes): the features of a data file in the
\* legacy format, which loadStaticHeatmapData returns as they are and the map's
\* load handler stores as originalHeatmapData and processedHeatmapData.
ConvertRoutes ==
    /\ pc = "source"
    /\ originalHeatmapData' = convertRoutesToHeatmapData(routes)
    /\ processedHeatmapData' = originalHeatmapData'
    /\ pc' = "loaded"
    /\ UNCHANGED <<routes, compactFeatures, overlapRadius, maxDensity, dataToUse,
                   intensities>>
    /\ UNCHANGED <<loaderVars, effectVars>>

\* convertRoutesToCompactHeatmapData(routes): the tuples of heatmap-data.json.
GenerateCompact ==
    /\ pc = "source"
    /\ compactFeatures' = convertRoutesToCompactHeatmapData(routes)
    /\ pc' = "file"
    /\ UNCHANGED <<routes, originalHeatmapData, overlapRadius, maxDensity,
                   processedHeatmapData, dataToUse, intensities>>
    /\ UNCHANGED <<loaderVars, effectVars>>

\* reprocessWithRadius(originalHeatmapData, precision, densityCap): one run of
\* the recompute effect's timer body with randomization off; overlapRadius and
\* maxDensity hold the arguments of the run.
Reprocess(precision, densityCap) ==
    /\ pc = "loaded"
    /\ overlapRadius' = precision
    /\ maxDensity' = densityCap
    /\ processedHeatmapData' = reprocessWithRadius(originalHeatmapData, precision, densityCap)
    /\ dataToUse' = processedHeatmapData'
    /\ intensities' = EmptyMap
    /\ pc' = "processed"
    /\ UNCHANGED <<routes, compactFeatures, originalHeatmapData>>
    /\ UNCHANGED <<loaderVars, effectVars>>

\* randomizeIntensities(newProcessedData, overlapRadius, maxDensity): the body
\* of randomizeIntensities, the route sub-segments computed once for all the
\* values that the Math.random() calls may return.
Randomize ==
    /\ pc = "processed"
    /\ LET rs == routeSegments(processedHeatmapData, overlapRadius)
           ptr == pointToRoutes(processedHeatmapData, overlapRadius)
           overlaps == overlapCounts(rs, ptr, overlapRadius)
       IN  \E result \in possibleIntensities(overlaps, maxDensity) :
               /\ intensities' = result
               /\ dataToUse' = applyIntensities(processedHeatmapData, rs, result)
    /\ pc' = "randomized"
    /\ UNCHANGED <<routes, compactFeatures, originalHeatmapData, overlapRadius, maxDensity,
                   processedHeatmapData>>
    /\ UNCHANGED <<loaderVars, effectVars>>

Next ==
    \/ ParseRoute
    \/ ParseTrack
    \/ \E point \in Pool : ParsePoint(point)
    \/ ConvertRoutes
    \/ GenerateCompact
    \/ \E precision \in Precisions, densityCap \in Caps : Reprocess(precision, densityCap)
    \/ Randomize

Spec == Init /\ [][Next]_vars

\* The Direct Policy alone: the same pipeline with the Randomize checkbox
\* left off, for the claims about the converters and reprocessWithRadius.
NextDirect ==
    \/ ParseRoute
    \/ ParseTrack
    \/ \E point \in Pool : ParsePoint(point)
    \/ ConvertRoutes
    \/ GenerateCompact
    \/ \E precision \in Precisions, densityCap \in Caps : Reprocess(precision, densityCap)

SpecDirect == Init /\ [][NextDirect]_vars

\* ------------------------------------------------------ claims: vocabulary
Processed == pc \in {"processed", "randomized"}

\* A point rounded at a precision, as a (lat, lon) pair.
RoundedPoint(point, precision) ==
    <<RoundCoord(point.lat, precision), RoundCoord(point.lon, precision)>>

\* The endpoints of f and g, rounded, match in one orientation or the other.
SameBucket(f, g, precision) ==
    LET f1 == RoundedPoint(f.coordinates[1], precision)
        f2 == RoundedPoint(f.coordinates[2], precision)
        g1 == RoundedPoint(g.coordinates[1], precision)
        g2 == RoundedPoint(g.coordinates[2], precision)
    IN  (f1 = g1 /\ f2 = g2) \/ (f1 = g2 /\ f2 = g1)

\* The number of features of data in the bucket of its n-th feature.
BucketCount(data, n, precision) ==
    Cardinality({m \in 1 .. Len(data) : SameBucket(data[m], data[n], precision)})

\* g is f traversed the other way.
Reversed(f, g) ==
    /\ f.coordinates[1] = g.coordinates[2]
    /\ f.coordinates[2] = g.coordinates[1]

Degenerate(f, precision) ==
    RoundedPoint(f.coordinates[1], precision) = RoundedPoint(f.coordinates[2], precision)

\* The endpoints of the features of data.
EndPoints(data) == {data[n].coordinates[c] : n \in 1 .. Len(data), c \in 1 .. 2}

\* ---------------------------------------------------------------- claim C1
\* C1: key symmetry.  For any two endpoints a, b of the loaded features and
\* any precision (the select's options and the converters' 10000), the key
\* of (a, b) equals the key of (b, a), also when a and b round to the same
\* point; hence a feature and its reverse get the same density from
\* convertRoutesToHeatmapData and from reprocessWithRadius, and reversed
\* compact tuples carry the same intensity.
C1_KeySymmetry ==
    /\ \A precision \in Precisions \cup {GeneratorPrecision} :
           \A a \in EndPoints(originalHeatmapData), b \in EndPoints(originalHeatmapData) :
               segmentKey(a, b, precision) = segmentKey(b, a, precision)
    /\ pc = "loaded" =>
           \A n \in 1 .. Len(originalHeatmapData), m \in 1 .. Len(originalHeatmapData) :
               Reversed(originalHeatmapData[n], originalHeatmapData[m])
                   => originalHeatmapData[n].density = originalHeatmapData[m].density
    /\ Processed =>
           \A n \in 1 .. Len(processedHeatmapData), m \in 1 .. Len(processedHeatmapData) :
               Reversed(processedHeatmapData[n], processedHeatmapData[m])
                   => processedHeatmapData[n].density = processedHeatmapData[m].density
    /\ pc = "file" =>
           \A n \in 1 .. Len(compactFeatures), m \in 1 .. Len(compactFeatures) :
               (/\ compactFeatures[n][1] = compactFeatures[m][3]
                /\ compactFeatures[n][2] = compactFeatures[m][4]
                /\ compactFeatures[n][3] = compactFeatures[m][1]
                /\ compactFeatures[n][4] = compactFeatures[m][2])
                   => compactFeatures[n][5] = compactFeatures[m][5]

\* A segment and its reverse were processed at a precision where their
\* endpoints share the rounded latitude and differ in the rounded longitude,
\* and each was counted twice.
C1_Witness ==
    /\ pc = "processed"
    /\ \E n \in 1 .. Len(processedHeatmapData), m \in 1 .. Len(processedHeatmapData) :
           LET f == processedHeatmapData[n]
               a == RoundedPoint(f.coordinates[1], overlapRadius)
               b == RoundedPoint(f.coordinates[2], overlapRadius)
           IN  /\ n # m
               /\ Reversed(f, processedHeatmapData[m])
               /\ a[1] = b[1] /\ a[2] # b[2]
               /\ f.density = 2
               /\ processedHeatmapData[m].density = 2

\* ---------------------------------------------------------------- claim C2
\* C2: the density reprocessWithRadius attaches to a feature is the number of
\* input features (itself included) whose endpoints, rounded at the
\* precision, match its rounded endpoints in either orientation; degenerate
\* segments are counted the same way.
C2_DensityIsBucketCount ==
    Processed =>
        /\ Len(processedHeatmapData) = Len(originalHeatmapData)
        /\ \A n \in 1 .. Len(processedHeatmapData) :
               processedHeatmapData[n].density
                   = BucketCount(originalHeatmapData, n, overlapRadius)

\* Two tracks run over the same segment in opposite directions (density 2),
\* a third segment is used once (density 1), as in the A/B example.
C2_Witness ==
    /\ pc = "processed"
    /\ \E n \in 1 .. Len(processedHeatmapData), m \in 1 .. Len(processedHeatmapData),
          k \in 1 .. Len(processedHeatmapData) :
           /\ processedHeatmapData[n].trackId # processedHeatmapData[m].trackId
           /\ Reversed(processedHeatmapData[n], processedHeatmapData[m])
           /\ ~ Degenerate(processedHeatmapData[n], overlapRadius)
           /\ processedHeatmapData[n].density = 2
           /\ processedHeatmapData[m].density = 2
           /\ Degenerate(processedHeatmapData[k], overlapRadius)
           /\ processedHeatmapData[k].density = 1

\* ---------------------------------------------------------------- claim C3
\* C3: cap invariant.  Every feature returned by reprocessWithRadius has
\* 1 <= intensity <= densityCap and intensity = min(density, densityCap),
\* density being the count of its bucket.
C3_CapInvariant ==
    Processed =>
        \A n \in 1 .. Len(processedHeatmapData) :
            LET density == BucketCount(originalHeatmapData, n, overlapRadius)
            IN  /\ 1 <= processedHeatmapData[n].intensity
                /\ processedHeatmapData[n].intensity <= maxDensity
                /\ processedHeatmapData[n].intensity = Min(density, maxDensity)

\* The cap binds for one feature (density above the cap) and not for another.
C3_Witness ==
    /\ pc = "processed"
    /\ \E n \in 1 .. Len(processedHeatmapData), m \in 1 .. Len(processedHeatmapData) :
           /\ processedHeatmapData[n].density > maxDensity
           /\ processedHeatmapData[n].intensity = maxDensity
           /\ processedHeatmapData[m].density < maxDensity
           /\ processedHeatmapData[m].intensity = processedHeatmapData[m].density

\* ---------------------------------------------------------------- claim C4
\* C4: density monotonicity under coarsening.  For the processed features
\* and every coarser precision of the select, the density of each feature at
\* the coarser precision is at least its density at the current one.
C4_DensityMonotone ==
    pc = "processed" =>
        \A coarse \in Precisions :
            coarse < overlapRadius =>
                \A n \in 1 .. Len(processedHeatmapData) :
                    reprocessWithRadius(originalHeatmapData, coarse, maxDensity)[n].density
                        >= processedHeatmapData[n].density

\* ---------------------------------------------------------------- claim C5
\* max(N - 1, 0) for a track of N points, and its sums over a route and over
\* the routes.
SegCount(track) == Max(Len(track) - 1, 0)

RECURSIVE RouteSegCount(_)
RouteSegCount(route) ==
    IF route = <<>> THEN 0 ELSE SegCount(Head(route)) + RouteSegCount(Tail(route))

RECURSIVE TotalSegCount(_)
TotalSegCount(rs) ==
    IF rs = <<>> THEN 0 ELSE RouteSegCount(Head(rs)) + TotalSegCount(Tail(rs))

\* Where the feature of segment i of track t of route r (all counted from 0)
\* stands in the output.
Position(rs, r, t, i) ==
    TotalSegCount(SubSeq(rs, 1, r)) + RouteSegCount(SubSeq(rs[r + 1], 1, t)) + i + 1

\* The (r, t, i) of the segments of the parsed routes.
SegmentIds(rs) ==
    {<<r, t, i>> \in (0 .. Len(rs) - 1) \X (0 .. Len(RouteFiles) - 1) \X (0 .. MaxPoints - 2) :
        /\ t < Len(rs[r + 1])
        /\ i < Len(rs[r + 1][t + 1]) - 1}

RECURSIVE SumCounts(_, _)
SumCounts(map, keys) ==
    IF keys = {} THEN 0
    ELSE LET key == CHOOSE k \in keys : TRUE
         IN  map[key] + SumCounts(map, keys \ {key})

\* The features of convertRoutesToHeatmapData: one per pair of consecutive
\* points, in loop order, with the original points and the identity.
C5_HeatmapFeatures ==
    /\ Len(originalHeatmapData) = TotalSegCount(routes)
    /\ \A id \in SegmentIds(routes) :
           LET track == routes[id[1] + 1][id[2] + 1]
               feature == originalHeatmapData[Position(routes, id[1], id[2], id[3])]
           IN  /\ feature.coordinates = <<track[id[3] + 1], track[id[3] + 2]>>
               /\ feature.id = id
               /\ feature.routeId = id[1]
               /\ feature.trackId = id[2]
               /\ feature.segmentId = id[3]

\* The density map of the first pass counts every segment once.
C5_DensityMap ==
    LET segmentDensity == convertFirstPass(RoutesLoop(routes, 0, <<>>), 1, EmptyMap)
    IN  /\ SumCounts(segmentDensity, DOMAIN segmentDensity) = TotalSegCount(routes)
        /\ TotalSegCount(routes) = 0 => segmentDensity = EmptyMap

\* C5 as amended: for every track with N points each conversion emits
\* exactly max(N - 1, 0) features, in the original order, their total being
\* the sum over all tracks; a track with zero or one point emits none and
\* adds nothing to the density map.  convertRoutesToHeatmapData pairs the
\* original point[i] with point[i + 1] and carries (routeIndex, trackIndex,
\* i); convertRoutesToCompactHeatmapData emits for the same pair the tuple
\* of its endpoints rounded at precision 10000, without any identity.
C5_Segmenter ==
    /\ pc = "loaded" => C5_HeatmapFeatures /\ C5_DensityMap
    /\ pc = "file" =>
           /\ C5_DensityMap
           /\ Len(compactFeatures) = TotalSegCount(routes)
           /\ \A id \in SegmentIds(routes) :
                  LET track == routes[id[1] + 1][id[2] + 1]
                      point1 == track[id[3] + 1]
                      point2 == track[id[3] + 2]
                      tuple == compactFeatures[Position(routes, id[1], id[2], id[3])]
                  IN  /\ Len(tuple) = 5
                      /\ <<tuple[2], tuple[1]>> = RoundedPoint(point1, GeneratorPrecision)
                      /\ <<tuple[4], tuple[3]>> = RoundedPoint(point2, GeneratorPrecision)

\* C5 as stated: both conversions pair the original points and give every
\* feature the identity of its segment, so that the features of two different
\* segments are told apart.
C5_SegmenterAsStated ==
    /\ pc = "loaded" => C5_HeatmapFeatures /\ C5_DensityMap
    /\ pc = "file" =>
           /\ C5_DensityMap
           /\ Len(compactFeatures) = TotalSegCount(routes)
           /\ \A id \in SegmentIds(routes) :
                  LET track == routes[id[1] + 1][id[2] + 1]
                      point1 == track[id[3] + 1]
                      point2 == track[id[3] + 2]
                      tuple == compactFeatures[Position(routes, id[1], id[2], id[3])]
                  IN  /\ <<tuple[1], tuple[2]>> = <<point1.lon, point1.lat>>
                      /\ <<tuple[3], tuple[4]>> = <<point2.lon, point2.lat>>
           /\ \A n \in 1 .. Len(compactFeatures), m \in 1 .. Len(compactFeatures) :
                  n # m => compactFeatures[n] # compactFeatures[m]

\* Converted: a route whose first track has a single point and whose second
\* track has three, so that the features are segments 0 and 1 of track 1.
C5_Witness ==
    /\ pc = "loaded"
    /\ \E r \in 1 .. Len(routes) :
           /\ Len(routes[r]) = 2
           /\ Len(routes[r][1]) = 1
           /\ Len(routes[r][2]) = 3
    /\ \E n \in 1 .. Len(originalHeatmapData) :
           /\ originalHeatmapData[n].trackId = 1
           /\ originalHeatmapData[n].segmentId = 1

\* ---------------------------------------------------------------- claim C6
\* C6: randomized bounds.  Whatever values Math.random() returned, every
\* feature returned by randomizeIntensities has 1 <= intensity <= densityCap.
C6_RandomizedBounds ==
    pc = "randomized" =>
        /\ Len(dataToUse) = Len(processedHeatmapData)
        /\ \A n \in 1 .. Len(dataToUse) :
               /\ dataToUse[n].intensity \in Int
               /\ 1 <= dataToUse[n].intensity
               /\ dataToUse[n].intensity <= maxDensity

\* Randomized with a sub-segment whose overlap count exceeds the cap.
C6_Witness ==
    /\ pc = "randomized"
    /\ LET rs == routeSegments(processedHeatmapData, overlapRadius)
           overlaps == overlapCounts(rs, pointToRoutes(processedHeatmapData, overlapRadius),
                                     overlapRadius)
       IN  \E key \in DOMAIN overlaps :
               /\ overlaps[key] > maxDensity
               /\ intensities[key] = maxDensity

\* ---------------------------------------------------------------- claim C7
\* C7: sub-segment sharing.  After randomizeIntensities every feature of a
\* route sub-segment carries the one intensity drawn for that sub-segment.
C7_SubSegmentSharing ==
    pc = "randomized" =>
        LET rs == routeSegments(processedHeatmapData, overlapRadius)
        IN  \A key \in segmentKeys(rs) :
                LET segment == rs[key[1]][key[2] + 1]
                IN  \A j \in 1 .. Len(segment), n \in 1 .. Len(dataToUse) :
                        dataToUse[n].id = segment[j].id
                            => dataToUse[n].intensity = intensities[key]

\* Randomized: a sub-segment of two features that touches another route, both
\* features carrying the 2 drawn for it.
C7_Witness ==
    /\ pc = "randomized"
    /\ LET rs == routeSegments(processedHeatmapData, overlapRadius)
       IN  \E key \in segmentKeys(rs) :
               LET segment == rs[key[1]][key[2] + 1]
               IN  /\ Len(segment) = 2
                   /\ intensities[key] = 2
                   /\ \E n \in 1 .. Len(dataToUse), m \in 1 .. Len(dataToUse) :
                          /\ n # m
                          /\ dataToUse[n].id = segment[1].id
                          /\ dataToUse[m].id = segment[2].id
                          /\ dataToUse[n].intensity = 2
                          /\ dataToUse[m].intensity = 2

\* ---------------------------------------------------------------- claim C8
\* data with its i-th and j-th features exchanged, and data reversed.
Swap(data, i, j) ==
    [n \in 1 .. Len(data) |-> IF n = i THEN data[j] ELSE IF n = j THEN data[i] ELSE data[n]]

Reverse(data) == [n \in 1 .. Len(data) |-> data[Len(data) + 1 - n]]

\* C8: determinism of the Direct Policy.  Exchanging any two input features,
\* or reversing the input, leaves the key -> density map as it is and
\* permutes the output the same way: no feature's density or intensity
\* depends on the iteration order.
C8_OrderIndependent ==
    pc = "processed" =>
        LET data == originalHeatmapData
            map == reprocessFirstPass(data, overlapRadius, 1, EmptyMap)
        IN  /\ processedHeatmapData = reprocessWithRadius(data, overlapRadius, maxDensity)
            /\ reprocessFirstPass(Reverse(data), overlapRadius, 1, EmptyMap) = map
            /\ reprocessWithRadius(Reverse(data), overlapRadius, maxDensity)
                   = Reverse(processedHeatmapData)
            /\ \A i \in 1 .. Len(data), j \in 1 .. Len(data) :
                   i < j =>
                       /\ reprocessFirstPass(Swap(data, i, j), overlapRadius, 1, EmptyMap) = map
                       /\ reprocessWithRadius(Swap(data, i, j), overlapRadius, maxDensity)
                              = Swap(processedHeatmapData, i, j)

\* Processed: three features or more, of different densities.
C8_Witness ==
    /\ pc = "processed"
    /\ Len(processedHeatmapData) >= 3
    /\ \E n \in 1 .. Len(processedHeatmapData), m \in 1 .. Len(processedHeatmapData) :
           /\ n < m
           /\ processedHeatmapData[n].density = 1
           /\ processedHeatmapData[m].density = 2

\* ---------------------------------------------------------------- claim C9
\* C9: changing only the cap.  With the same features and precision, a run
\* with a lower cap c2 leaves every feature's bucket key and density as they
\* are; a feature whose intensity exceeded c2 gets intensity c2, every other
\* feature keeps its intensity.
C9_LowerCap ==
    pc = "processed" =>
        \A c2 \in Caps :
            c2 < maxDensity =>
                LET lower == reprocessWithRadius(originalHeatmapData, overlapRadius, c2)
                IN  /\ Len(lower) = Len(processedHeatmapData)
                    /\ \A n \in 1 .. Len(lower) :
                           LET before == processedHeatmapData[n]
                               after == lower[n]
                           IN  /\ after.density = before.density
                               /\ segmentKey(after.coordinates[1], after.coordinates[2],
                                             overlapRadius)
                                      = segmentKey(before.coordinates[1],
                                                   before.coordinates[2], overlapRadius)
                               /\ before.intensity > c2 => after.intensity = c2
                               /\ before.intensity <= c2 => after.intensity = before.intensity

\* Processed with the default cap: one feature of intensity 3, above the
\* lower caps, and one of intensity 1.
C9_Witness ==
    /\ pc = "processed"
    /\ maxDensity = DefaultMaxDensity
    /\ \E n \in 1 .. Len(processedHeatmapData), m \in 1 .. Len(processedHeatmapData) :
           /\ processedHeatmapData[n].intensity = 3
           /\ processedHeatmapData[m].intensity = 1

\* --------------------------------------------------------------- claim C10
\* C10: non-determinism of the Randomized Policy.  Once randomizeIntensities
\* has assigned intensities to some features, other values of Math.random()
\* would have given at least one feature another intensity.
C10_ResultsDiffer ==
    (pc = "randomized" /\ Len(dataToUse) > 0) =>
        \E rnd \in DrawSequences(processedHeatmapData, overlapRadius) :
            randomizeIntensities(processedHeatmapData, overlapRadius, maxDensity, rnd)
                # dataToUse

\* What holds instead: the values of Math.random() never change the result.
C10_DrawsNeverMatter ==
    pc = "randomized" =>
        \A rnd \in DrawSequences(processedHeatmapData, overlapRadius) :
            randomizeIntensities(processedHeatmapData, overlapRadius, maxDensity, rnd)
                = dataToUse

\* ============================================================== the loaders
\* The GPX files of the routes directory, as Object.keys(routeFiles) and
\* fs.readdirSync list them.
Directory == <<"a.gpx", "b.gpx", "c.gpx">>

\* concurrency arguments that divide a directory of this size into chunks.
Concurrencies == {1, 2}

\* How reading and parsing one file may end in parseGPXFile.
ParseOutcomes == {"route", "readFileThrows", "parseThrows"}

\* How fetching and parsing one file may end in a callback of loadRoutes.
FetchOutcomes == {"route", "notOk", "parseThrows", "fetchThrows", "textThrows"}

\* The files (as indexes, counted from 1) that n files hold in status st.
FilesIn(st) == {f \in DOMAIN status : status[f] = st}

\* A chunk whose slice reaches one file too far.
chunkOf_TooLong(i, c, n) == (i + 1) .. Min(i + c + 1, n)

\* files.slice(i, i + concurrency), as the set of its files.
chunkOf(i, c, n) == (i + 1) .. Min(i + c, n)

\* status and calls once the files of chunk have been handed to parseGPXFile
\* or fetch.
Launch(st, chunk) == [f \in DOMAIN st |-> IF f \in chunk THEN "inflight" ELSE st[f]]

Count(cs, chunk) == [f \in DOMAIN cs |-> IF f \in chunk THEN cs[f] + 1 ELSE cs[f]]

\* parseGPXFile: the route, or null when readFile or gpx.parse throws (the
\* try/catch around both).
parseGPXFile(outcome) == IF outcome = "route" THEN "route" ELSE "null"

\* The promise of one callback of loadRoutes: null for a response that is not
\* ok and for a parse error (caught in parseGPX); a fetch or response.text()
\* that throws is not caught in the callback and rejects its promise.
routePromise(outcome) ==
    CASE outcome = "route" -> "route"
      [] outcome \in {"notOk", "parseThrows"} -> "null"
      [] OTHER -> "rejected"

\* results.filter(result => result !== null), as the names of the files.
filterNotNull(rs) ==
    LET kept == SelectSeq(rs, LAMBDA r : r[2] # "null")
    IN  [k \in 1 .. Len(kept) |-> files[kept[k][1]]]

\* processFilesInParallel(files, routesDir, c) up to its first await: the
\* first chunk's parses are started, or [] is returned for no files.
CallProcessFiles(n, c) ==
    /\ loaderPc = "idle"
    /\ loader' = "processFilesInParallel"
    /\ files' = SubSeq(Directory, 1, n)
    /\ concurrency' = c
    /\ chunkStart' = 0
    /\ status' = Launch([f \in 1 .. n |-> "waiting"], chunkOf(0, c, n))
    /\ calls' = Count([f \in 1 .. n |-> 0], chunkOf(0, c, n))
    /\ settled' = <<>>
    /\ results' = <<>>
    /\ returned' = <<>>
    /\ reported' = {}
    /\ loaderPc' = IF n = 0 THEN "done" ELSE "running"
    /\ UNCHANGED <<dataVars, effectVars>>

\* One parseGPXFile call settles.
ParseSettles(f, outcome) ==
    /\ loader = "processFilesInParallel"
    /\ f \in FilesIn("inflight")
    /\ status' = [status EXCEPT ![f] = parseGPXFile(outcome)]
    /\ reported' = IF outcome = "route" THEN reported ELSE reported \cup {f}
    /\ settled' = Append(settled, f)
    /\ UNCHANGED <<loader, files, concurrency, chunkStart, calls, results, returned,
                   loaderPc, dataVars, effectVars>>

\* await Promise.all(chunkPromises) resumes: the chunk's results are pushed in
\* the chunk's order and the loop starts the next chunk or returns.
ChunkSettles ==
    /\ loader = "processFilesInParallel"
    /\ loaderPc = "running"
    /\ LET n == Len(files)
           chunk == chunkOf(chunkStart, concurrency, n)
           next == chunkOf(chunkStart + concurrency, concurrency, n)
       IN  /\ \A f \in chunk : status[f] \in {"route", "null"}
           /\ results' = results \o
                  [k \in 1 .. Cardinality(chunk) |->
                      <<chunkStart + k, status[chunkStart + k]>>]
           /\ chunkStart' = chunkStart + concurrency
           /\ IF chunkStart' < n
              THEN /\ status' = Launch(status, next)
                   /\ calls' = Count(calls, next)
                   /\ UNCHANGED <<returned, loaderPc>>
              ELSE /\ returned' = filterNotNull(results')
                   /\ loaderPc' = "done"
                   /\ UNCHANGED <<status, calls>>
    /\ UNCHANGED <<loader, files, concurrency, settled, reported, dataVars, effectVars>>

\* loadRoutes() up to await Promise.all(routePromises): every file is fetched.
CallLoadRoutes(n) ==
    /\ loaderPc = "idle"
    /\ loader' = "loadRoutes"
    /\ files' = SubSeq(Directory, 1, n)
    /\ status' = [f \in 1 .. n |-> "inflight"]
    /\ calls' = [f \in 1 .. n |-> 1]
    /\ settled' = <<>>
    /\ results' = <<>>
    /\ returned' = <<>>
    /\ reported' = {}
    /\ loaderPc' = "running"
    /\ UNCHANGED <<concurrency, chunkStart, dataVars, effectVars>>

\* One callback of loadRoutes settles.  A rejection resumes loadRoutes before
\* any other fetch can settle.
FetchSettles(f, outcome) ==
    /\ loader = "loadRoutes"
    /\ f \in FilesIn("inflight")
    /\ ~(loaderPc = "running" /\ FilesIn("rejected") # {})
    /\ status' = [status EXCEPT ![f] = routePromise(outcome)]
    /\ reported' = IF outcome \in {"notOk", "parseThrows"}
                   THEN reported \cup {f} ELSE reported
    /\ settled' = Append(settled, f)
    /\ UNCHANGED <<loader, files, concurrency, chunkStart, calls, results, returned,
                   loaderPc, dataVars, effectVars>>

\* await Promise.all(routePromises) resumes: with all the routes in the order
\* of the files, or in the catch block, which returns [].
LoadRoutesSettles ==
    /\ loader = "loadRoutes"
    /\ loaderPc = "running"
    /\ \/ /\ FilesIn("rejected") # {}
          /\ results' = <<>>
          /\ returned' = <<>>
       \/ /\ FilesIn("rejected") = {}
          /\ FilesIn("inflight") = {}
          /\ results' = [f \in 1 .. Len(files) |-> <<f, status[f]>>]
          /\ returned' = filterNotNull(results')
    /\ loaderPc' = "done"
    /\ UNCHANGED <<loader, files, concurrency, chunkStart, status, calls, settled,
                   reported, dataVars, effectVars>>

NextLoad ==
    \/ \E n \in 0 .. Len(Directory), c \in Concurrencies : CallProcessFiles(n, c)
    \/ \E f \in 1 .. Len(Directory), outcome \in ParseOutcomes : ParseSettles(f, outcome)
    \/ ChunkSettles
    \/ \E n \in 0 .. Len(Directory) : CallLoadRoutes(n)
    \/ \E f \in 1 .. Len(Directory), outcome \in FetchOutcomes : FetchSettles(f, outcome)
    \/ LoadRoutesSettles

SpecLoad == Init /\ [][NextLoad]_vars

\* The names of the files that gave a route, in the order of the file list.
RoutesInOrder ==
    LET ok == SelectSeq([f \in 1 .. Len(files) |-> f], LAMBDA f : status[f] = "route")
    IN  [k \in 1 .. Len(ok) |-> files[ok[k]]]

\* --------------------------------------------------------------- claim C11
\* C11: skipping bad input.  Once a loader has returned and every fetch or
\* read has ended, the files that could not be fetched, read or parsed (a
\* fetch or read that throws included) are reported and left out, and the
\* routes of all the other files are returned; for loadRoutes and for
\* processFilesInParallel alike.
C11_SkipsBadInput ==
    (loaderPc = "done" /\ FilesIn("inflight") = {}) =>
        /\ returned = RoutesInOrder
        /\ reported = DOMAIN status \ FilesIn("route")

\* What holds instead: processFilesInParallel skips and reports every bad
\* file; loadRoutes does so as long as no fetch and no response.text() throws,
\* and returns no route at all once one has thrown.
C11_SkipsUnlessFetchThrows ==
    (loaderPc = "done" /\ FilesIn("inflight") = {}) =>
        IF FilesIn("rejected") = {}
        THEN /\ returned = RoutesInOrder
             /\ reported = DOMAIN status \ FilesIn("route")
        ELSE /\ loader = "loadRoutes"
             /\ returned = <<>>

\* loadRoutes has returned although one file was fetched and parsed, because
\* the fetch of another file threw.
C11_Witness ==
    /\ loader = "loadRoutes"
    /\ loaderPc = "done"
    /\ FilesIn("inflight") = {}
    /\ FilesIn("route") # {}
    /\ FilesIn("rejected") # {}

\* --------------------------------------------------------------- claim C19
\* The chunk a file belongs to, counted from 0.
chunkIndex(f) == (f - 1) \div concurrency

\* C19: concurrency limit.  During processFilesInParallel(files, dir, c) at
\* most c parseGPXFile calls are in flight, no call of a later chunk has
\* started while a call of an earlier chunk is in flight, no file is parsed
\* twice, and on return every file has been parsed once and the result lists
\* the routes in the order of the file list, whatever order the parses
\* completed in.
C19_ConcurrencyLimit ==
    loader = "processFilesInParallel" =>
        /\ Cardinality(FilesIn("inflight")) <= concurrency
        /\ \A f \in DOMAIN status : calls[f] <= 1
        /\ \A f \in DOMAIN status, g \in DOMAIN status :
               (chunkIndex(f) < chunkIndex(g) /\ calls[g] > 0)
                   => status[f] \in {"route", "null"}
        /\ loaderPc = "done" =>
               /\ \A f \in DOMAIN status : calls[f] = 1
               /\ FilesIn("inflight") = {}
               /\ returned = RoutesInOrder

\* Returned: three files in chunks of two, the second file parsed before the
\* first, one file skipped.
C19_Witness ==
    /\ loader = "processFilesInParallel"
    /\ loaderPc = "done"
    /\ concurrency = 2
    /\ settled = <<2, 1, 3>>
    /\ returned = <<"a.gpx", "c.gpx">>

\* ======================================================= the static data file
\* A feature whose every tuple gets a route id of its own.
loadStaticHeatmapData_OwnRoutes(compact) ==
    [n \in 1 .. Len(compact) |->
        [id |-> <<n - 1>>,
         intensity |-> compact[n][5],
         density |-> compact[n][5],
         routeId |-> n - 1,
         trackId |-> Undefined,
         segmentId |-> Undefined,
         coordinates |-> <<[lon |-> compact[n][1], lat |-> compact[n][2]],
                           [lon |-> compact[n][3], lat |-> compact[n][4]]>>]]

\* A loader that takes the tuple for [lat1, lon1, lat2, lon2, intensity].
loadStaticHeatmapData_LatFirst(compact) ==
    [n \in 1 .. Len(compact) |->
        [id |-> <<n - 1>>,
         intensity |-> compact[n][5],
         density |-> compact[n][5],
         routeId |-> Undefined,
         trackId |-> Undefined,
         segmentId |-> Undefined,
         coordinates |-> <<[lon |-> compact[n][2], lat |-> compact[n][1]],
                           [lon |-> compact[n][4], lat |-> compact[n][3]]>>]]

\* loadStaticHeatmapData for metadata.format === 'compact':
\*   data.features.map((compactFeature, index) => ({id: index, properties:
\*   {intensity, density: intensity}, geometry: {coordinates: [[lon1, lat1],
\*   [lon2, lat2]]}}))
\* The id is the sequence holding the index; properties has no routeId,
\* trackId or segmentId.
loadStaticHeatmapData(compact) ==
    [n \in 1 .. Len(compact) |->
        [id |-> <<n - 1>>,
         intensity |-> compact[n][5],
         density |-> compact[n][5],
         routeId |-> Undefined,
         trackId |-> Undefined,
         segmentId |-> Undefined,
         coordinates |-> <<[lon |-> compact[n][1], lat |-> compact[n][2]],
                           [lon |-> compact[n][3], lat |-> compact[n][4]]>>]]

\* loadStaticHeatmapData(): the features of the compact data file become the
\* data to process.
LoadStatic ==
    /\ pc = "file"
    /\ originalHeatmapData' = loadStaticHeatmapData(compactFeatures)
    /\ processedHeatmapData' = originalHeatmapData'
    /\ dataToUse' = originalHeatmapData'
    /\ pc' = "loaded"
    /\ UNCHANGED <<routes, compactFeatures, overlapRadius, maxDensity, intensities>>
    /\ UNCHANGED <<loaderVars, effectVars>>

NextStatic ==
    \/ ParseRoute
    \/ ParseTrack
    \/ \E point \in Pool : ParsePoint(point)
    \/ GenerateCompact
    \/ LoadStatic
    \/ \E precision \in Precisions, densityCap \in Caps : Reprocess(precision, densityCap)
    \/ Randomize

SpecStatic == Init /\ [][NextStatic]_vars

\* --------------------------------------------------------------- claim C14
\* C14: compact interchange format.  The tuples written by
\* convertRoutesToCompactHeatmapData are [lon1, lat1, lon2, lat2, intensity]
\* with intensity = min(density, 10), the density being the number of segments
\* in the tuple's bucket; loadStaticHeatmapData returns one feature per tuple,
\* in the same order, the feature of the i-th tuple (counted from 0) having id
\* i, coordinates [[lon1, lat1], [lon2, lat2]] and intensity = density = the
\* tuple's intensity.
C14_CompactFormat ==
    /\ pc # "source" =>
           LET steps == RoutesLoop(routes, 0, <<>>)
           IN  /\ Len(compactFeatures) = Len(steps)
               /\ \A n \in 1 .. Len(steps) :
                      LET tuple == compactFeatures[n]
                          p1 == RoundedPoint(steps[n].point1, GeneratorPrecision)
                          p2 == RoundedPoint(steps[n].point2, GeneratorPrecision)
                          same == {m \in 1 .. Len(steps) :
                                      LET q1 == RoundedPoint(steps[m].point1, GeneratorPrecision)
                                          q2 == RoundedPoint(steps[m].point2, GeneratorPrecision)
                                      IN  <<q1, q2>> \in {<<p1, p2>>, <<p2, p1>>}}
                      IN  /\ Len(tuple) = 5
                          /\ <<tuple[2], tuple[1]>> = p1
                          /\ <<tuple[4], tuple[3]>> = p2
                          /\ tuple[5] = Min(Cardinality(same), 10)
    /\ pc \notin {"source", "file"} =>
           /\ Len(originalHeatmapData) = Len(compactFeatures)
           /\ \A n \in 1 .. Len(compactFeatures) :
                  LET tuple == compactFeatures[n]
                      feature == originalHeatmapData[n]
                  IN  /\ feature.id = <<n - 1>>
                      /\ feature.coordinates[1] = [lon |-> tuple[1], lat |-> tuple[2]]
                      /\ feature.coordinates[2] = [lon |-> tuple[3], lat |-> tuple[4]]
                      /\ feature.intensity = tuple[5]
                      /\ feature.density = tuple[5]

\* Loaded: two tuples or more, one of intensity 2, with endpoints that differ
\* in longitude and in latitude.
C14_Witness ==
    /\ pc = "loaded"
    /\ Len(originalHeatmapData) >= 2
    /\ \E n \in 1 .. Len(originalHeatmapData) :
           LET feature == originalHeatmapData[n]
           IN  /\ feature.intensity = 2
               /\ feature.coordinates[1].lon # feature.coordinates[2].lon
               /\ feature.coordinates[1].lat # feature.coordinates[2].lat
               /\ feature.coordinates[1].lon # feature.coordinates[1].lat

\* --------------------------------------------------------------- claim C20
\* C20: with the features of loadStaticHeatmapData, which carry no routeId,
\* randomizeIntensities puts all features in one route, finds no intersection
\* point, builds a single sub-segment and gives every feature intensity 1,
\* for every draw and every densityCap >= 1, whatever the densities are.
C20_StaticRandomizedIsOne ==
    (pc = "randomized" /\ Len(processedHeatmapData) > 0) =>
        LET groups == routeGroups(processedHeatmapData)
            ptr == pointToRoutes(processedHeatmapData, overlapRadius)
            rs == routeSegments(processedHeatmapData, overlapRadius)
        IN  /\ DOMAIN groups = {Undefined}
            /\ groups[Undefined] = processedHeatmapData
            /\ intersectionPoints(ptr) = {}
            /\ rs[Undefined] = <<processedHeatmapData>>
            /\ \A rnd \in DrawSequences(processedHeatmapData, overlapRadius) :
                   LET result == randomizeIntensities(processedHeatmapData, overlapRadius,
                                                      maxDensity, rnd)
                   IN  \A n \in 1 .. Len(processedHeatmapData) : result[n].intensity = 1
            /\ \A n \in 1 .. Len(dataToUse) : dataToUse[n].intensity = 1

\* Randomized static features, one of density 3 under a cap of 10.
C20_Witness ==
    /\ pc = "randomized"
    /\ maxDensity = DefaultMaxDensity
    /\ \E n \in 1 .. Len(dataToUse) :
           /\ dataToUse[n].density = 3
           /\ processedHeatmapData[n].intensity = 3
           /\ dataToUse[n].intensity = 1

\* --------------------------------------------------------------- claim C18
\* C18: missing-density fallback.  segmentDensity[key] || 1 yields 1 for a key
\* that is absent from the density map; in reprocessWithRadius and in
\* convertRoutesToCompactHeatmapData the key of every feature is present after
\* the first pass, so every density is the counted one and is >= 1, and the
\* fallback is not taken.
C18_FallbackNeverTaken ==
    /\ Processed =>
           LET segmentDensity == reprocessFirstPass(originalHeatmapData, overlapRadius,
                                                    1, EmptyMap)
           IN  \A n \in 1 .. Len(originalHeatmapData) :
                   LET c == originalHeatmapData[n].coordinates
                       key == segmentKey(c[1], c[2], overlapRadius)
                   IN  /\ key \in DOMAIN segmentDensity
                       /\ segmentDensity[key] >= 1
                       /\ processedHeatmapData[n].density = segmentDensity[key]
                       /\ \A other \in Precisions :
                              LET absent == segmentKey(c[1], c[2], other)
                              IN  absent \notin DOMAIN segmentDensity
                                      => Lookup(segmentDensity, absent, 1) = 1
    /\ pc # "source" =>
           LET steps == RoutesLoop(routes, 0, <<>>)
               segmentDensity == convertFirstPass(steps, 1, EmptyMap)
           IN  \A n \in 1 .. Len(steps) :
                   LET key == segmentKey(steps[n].point1, steps[n].point2, GeneratorPrecision)
                   IN  /\ key \in DOMAIN segmentDensity
                       /\ segmentDensity[key] >= 1
                       /\ compactFeatures[n][5] = Min(segmentDensity[key], GeneratorCap)

\* Processed at another precision than the file's: a bucket of two features,
\* and a key of the default precision that the density map does not hold.
C18_Witness ==
    /\ pc = "processed"
    /\ overlapRadius = 500
    /\ \E n \in 1 .. Len(processedHeatmapData) :
           /\ processedHeatmapData[n].density = 2
           /\ segmentKey(originalHeatmapData[n].coordinates[1],
                         originalHeatmapData[n].coordinates[2], DefaultOverlapRadius)
                  \notin DOMAIN reprocessFirstPass(originalHeatmapData, overlapRadius,
                                                   1, EmptyMap)

\* ======================================================= the recompute effect
\* The options of the "Max Density" select.
CapOptions == {5, 10, 20, 50}

\* A track that runs between two points once more than the generator's cap.
LongTrack == [k \in 1 .. GeneratorCap + 2 |-> IF k % 2 = 1 THEN PointA ELSE PointB]

\* Route directories the data file may have been generated from: no route;
\* one track that runs between two points six times; two routes that share
\* a segment; one track whose segment is used more often than the cap.
SampleRoutes ==
    { <<>>,
      << << <<PointA, PointB, PointA, PointB, PointA, PointB, PointA>> >> >>,
      << << <<PointA, PointA, PointB>> >>, << <<PointB, PointA>> >> >>,
      << << LongTrack >> >> }

\* The app starts with the defaults and a data file generated from one of the
\* sample directories.
InitApp ==
    /\ routes \in SampleRoutes
    /\ pc = "file"
    /\ compactFeatures = convertRoutesToCompactHeatmapData(routes)
    /\ originalHeatmapData = <<>>
    /\ overlapRadius = DefaultOverlapRadius
    /\ maxDensity = DefaultMaxDensity
    /\ processedHeatmapData = <<>>
    /\ dataToUse = <<>>
    /\ intensities = EmptyMap
    /\ InitLoader
    /\ InitEffect

\* The effect on [originalHeatmapData, overlapRadius, randomizeIntensity,
\* maxDensity]: with data, setIsProcessing(true) and setTimeout(..., 500) of a
\* callback that closes over the values of this render.
recomputeEffect(data, precision, densityCap, randomize) ==
    IF Len(data) > 0
    THEN /\ isProcessing' = TRUE
         /\ timers' = Append(timers, [data |-> data, precision |-> precision,
                                      densityCap |-> densityCap, randomize |-> randomize])
    ELSE UNCHANGED <<isProcessing, timers>>

\* A callback that reprocesses with the default radius.
newProcessedData_DefaultRadius(t) ==
    reprocessWithRadius(t.data, DefaultOverlapRadius, t.densityCap)

\* newProcessedData of the timer callback t.
newProcessedData(t) == reprocessWithRadius(t.data, t.precision, t.densityCap)

\* map 'load': the features of the data file are stored and shown, and the
\* effect runs for the new originalHeatmapData.
MapLoad ==
    /\ pc = "file"
    /\ originalHeatmapData' = loadStaticHeatmapData(compactFeatures)
    /\ processedHeatmapData' = originalHeatmapData'
    /\ dataToUse' = originalHeatmapData'
    /\ pc' = "loaded"
    /\ recomputeEffect(originalHeatmapData', overlapRadius, maxDensity, randomizeIntensity)
    /\ UNCHANGED <<routes, compactFeatures, overlapRadius, maxDensity, intensities,
                   randomizeIntensity, loaderVars, unmountVars>>

\* onChange of the "Overlap Radius" select (disabled while processing), and
\* the effect that follows the render.
SetOverlapRadius(precision) ==
    /\ ~isProcessing
    /\ precision # overlapRadius
    /\ overlapRadius' = precision
    /\ recomputeEffect(originalHeatmapData, precision, maxDensity, randomizeIntensity)
    /\ UNCHANGED <<routes, pc, compactFeatures, originalHeatmapData, maxDensity,
                   processedHeatmapData, dataToUse, intensities, randomizeIntensity,
                   loaderVars, unmountVars>>

\* onChange of the "Max Density" select.
SetMaxDensity(densityCap) ==
    /\ ~isProcessing
    /\ densityCap # maxDensity
    /\ maxDensity' = densityCap
    /\ recomputeEffect(originalHeatmapData, overlapRadius, densityCap, randomizeIntensity)
    /\ UNCHANGED <<routes, pc, compactFeatures, originalHeatmapData, overlapRadius,
                   processedHeatmapData, dataToUse, intensities, randomizeIntensity,
                   loaderVars, unmountVars>>

\* onChange of the "Randomize" checkbox.
SetRandomizeIntensity ==
    /\ ~isProcessing
    /\ randomizeIntensity' = ~randomizeIntensity
    /\ recomputeEffect(originalHeatmapData, overlapRadius, maxDensity, randomizeIntensity')
    /\ UNCHANGED <<routes, pc, compactFeatures, originalHeatmapData, overlapRadius,
                   maxDensity, processedHeatmapData, dataToUse, intensities, loaderVars,
                   unmountVars>>

\* The oldest pending timer fires: reprocess, randomize if the callback's
\* randomizeIntensity is set, hand the features to the map source (which the
\* load handler has added), setIsProcessing(false).
TimerFires ==
    /\ timers # <<>>
    /\ LET t == Head(timers)
           new == newProcessedData(t)
       IN  /\ processedHeatmapData' = new
           /\ IF t.randomize
              THEN LET rs == routeSegments(new, t.precision)
                       ptr == pointToRoutes(new, t.precision)
                   IN  \E rnd \in DrawSequences(new, t.precision) :
                           /\ intensities' = segmentIntensities(
                                  overlapCounts(rs, ptr, t.precision), drawOrder(rs),
                                  t.densityCap, rnd)
                           /\ dataToUse' = applyIntensities(new, rs, intensities')
                           /\ pc' = "randomized"
              ELSE /\ intensities' = EmptyMap
                   /\ dataToUse' = new
                   /\ pc' = "processed"
    /\ isProcessing' = FALSE
    /\ timers' = Tail(timers)
    /\ UNCHANGED <<routes, compactFeatures, originalHeatmapData, overlapRadius, maxDensity,
                   randomizeIntensity, loaderVars, unmountVars>>

NextApp ==
    \/ MapLoad
    \/ \E precision \in Precisions : SetOverlapRadius(precision)
    \/ \E densityCap \in CapOptions : SetMaxDensity(densityCap)
    \/ SetRandomizeIntensity
    \/ TimerFires

SpecApp == InitApp /\ [][NextApp]_vars

\* --------------------------------------------------------------- claim C12
\* A change of overlapRadius, randomizeIntensity or maxDensity with data
\* loaded schedules a recomputation from originalHeatmapData with the new
\* values and sets isProcessing.
C12_Scheduled ==
    (/\ <<overlapRadius, randomizeIntensity, maxDensity>>'
            # <<overlapRadius, randomizeIntensity, maxDensity>>
     /\ Len(originalHeatmapData) > 0)
        => /\ timers' = Append(timers, [data |-> originalHeatmapData,
                                        precision |-> overlapRadius',
                                        densityCap |-> maxDensity',
                                        randomize |-> randomizeIntensity'])
           /\ isProcessing'

\* With data loaded and no timer pending, isProcessing is false and the map
\* source holds the features computed from originalHeatmapData with the
\* current precision, cap and randomize values.
C12_Settled ==
    (timers = <<>> /\ Len(originalHeatmapData) > 0) =>
        LET direct == reprocessWithRadius(originalHeatmapData, overlapRadius, maxDensity)
        IN  /\ ~isProcessing
            /\ processedHeatmapData = direct
            /\ IF randomizeIntensity
               THEN \E rnd \in DrawSequences(direct, overlapRadius) :
                        dataToUse = randomizeIntensities(direct, overlapRadius,
                                                         maxDensity, rnd)
               ELSE dataToUse = direct

\* C12: recompute on configuration change.  Whenever overlapRadius,
\* randomizeIntensity or maxDensity changes while originalHeatmapData is
\* non-empty, a recomputation from originalHeatmapData is scheduled; once
\* every scheduled timer has fired, isProcessing is false and the map source
\* holds the features computed with the latest configuration, never those of
\* an older one.
C12_RecomputeOnChange == []C12_Settled /\ [][C12_Scheduled]_vars

\* Settled after changes of the radius and of the cap: a bucket of six
\* features shown with the cap's intensity 5.
C12_Witness ==
    /\ timers = <<>>
    /\ ~isProcessing
    /\ ~randomizeIntensity
    /\ overlapRadius = 500
    /\ maxDensity = 5
    /\ \E n \in 1 .. Len(dataToUse) :
           /\ dataToUse[n].density = 6
           /\ dataToUse[n].intensity = 5

\* ============================================ further claims on the functions
\* --------------------------------------------------------------- claim C13
\* out has the length and order of in, each feature with the id and the
\* coordinates of the feature of in at its index.
SameShape(out, in) ==
    /\ Len(out) = Len(in)
    /\ \A n \in 1 .. Len(in) :
           /\ out[n].id = in[n].id
           /\ out[n].coordinates = in[n].coordinates

\* C13: no in-place mutation.  After reprocessWithRadius its input
\* originalHeatmapData still is what the converter returned, and after
\* randomizeIntensities its input processedHeatmapData still is what
\* reprocessWithRadius returned; each output has the length and order of its
\* input and every output feature the id and coordinates of the input feature
\* at its index.
C13_NoMutation ==
    /\ Processed =>
           /\ originalHeatmapData = convertRoutesToHeatmapData(routes)
           /\ SameShape(processedHeatmapData, originalHeatmapData)
    /\ pc = "randomized" =>
           /\ processedHeatmapData
                  = reprocessWithRadius(originalHeatmapData, overlapRadius, maxDensity)
           /\ SameShape(dataToUse, processedHeatmapData)

\* Randomized: a feature whose intensity reprocessWithRadius changed and
\* randomizeIntensities changed again, with coordinates that rounding at the
\* active precision would move.
C13_Witness ==
    /\ pc = "randomized"
    /\ \E n \in 1 .. Len(dataToUse) :
           /\ originalHeatmapData[n].intensity # processedHeatmapData[n].intensity
           /\ processedHeatmapData[n].intensity # dataToUse[n].intensity
           /\ RoundCoord(dataToUse[n].coordinates[1].lat, overlapRadius)
                  # dataToUse[n].coordinates[1].lat

\* --------------------------------------------------------------- claim C15
\* The route ids whose features have an endpoint that rounds to the same
\* point as point.
RoutesTouching(data, point, precision) ==
    {data[n].routeId : n \in {m \in 1 .. Len(data) :
        \E c \in 1 .. 2 :
            RoundedPoint(data[m].coordinates[c], precision) = RoundedPoint(point, precision)}}

\* The largest number of a set of numbers.
Largest(numbers) == CHOOSE m \in numbers : \A x \in numbers : x <= m

\* C15: randomized intensity formula.  For each route sub-segment, overlapCount
\* is the largest number, over both endpoints of all its features, of distinct
\* route ids touching that rounded point, and at least 1; baseIntensity is
\* min(overlapCount, densityCap); the sub-segment's intensity is
\* clamp(round(baseIntensity + v), 1, densityCap) for a draw v in [-0.2, 0.2].
C15_RandomizedFormula ==
    pc = "randomized" =>
        LET data == processedHeatmapData
            rs == routeSegments(data, overlapRadius)
        IN  /\ DOMAIN intensities = segmentKeys(rs)
            /\ \A key \in segmentKeys(rs) :
                   LET segment == rs[key[1]][key[2] + 1]
                       counts == {Cardinality(RoutesTouching(data, segment[j].coordinates[c],
                                                            overlapRadius)) :
                                      j \in 1 .. Len(segment), c \in 1 .. 2}
                       overlap == Largest(counts \cup {1})
                       baseIntensity == Min(overlap, maxDensity)
                   IN  \E r \in 0 .. RandSteps :
                           LET rounded == MathRound(10 * RandSteps * baseIntensity + 4 * r
                                                        - 2 * RandSteps, 10 * RandSteps)
                           IN  intensities[key] = Max(1, Min(maxDensity, rounded))

\* Randomized under the default cap: a sub-segment of intensity 2 whose first
\* feature starts at a point of one route only and ends at a point of two.
C15_Witness ==
    /\ pc = "randomized"
    /\ maxDensity = DefaultMaxDensity
    /\ LET rs == routeSegments(processedHeatmapData, overlapRadius)
       IN  \E key \in segmentKeys(rs) :
               LET first == rs[key[1]][key[2] + 1][1]
               IN  /\ intensities[key] = 2
                   /\ Cardinality(RoutesTouching(processedHeatmapData,
                          first.coordinates[1], overlapRadius)) = 1
                   /\ Cardinality(RoutesTouching(processedHeatmapData,
                          first.coordinates[2], overlapRadius)) = 2

\* --------------------------------------------------------------- claim C16
RECURSIVE Concat(_)
Concat(seqs) == IF seqs = <<>> THEN <<>> ELSE Head(seqs) \o Concat(Tail(seqs))

\* C16: sub-segment splitting.  The sub-segments of each route are non-empty
\* and, concatenated in order, give the route's feature list; a sub-segment
\* ends at the k-th feature of the route if and only if that feature's second
\* endpoint, rounded at the active precision, is touched by two or more
\* routes, or the feature is the route's last.
C16_SubSegmentSplitting ==
    pc = "randomized" =>
        LET data == processedHeatmapData
            rs == routeSegments(data, overlapRadius)
            ids == {data[n].routeId : n \in 1 .. Len(data)}
        IN  /\ DOMAIN rs = ids
            /\ \A routeId \in ids :
                   LET route == SelectSeq(data, LAMBDA f : f.routeId = routeId)
                       segments == rs[routeId]
                       ends == {SumLen(SubSeq(segments, 1, i)) : i \in 1 .. Len(segments)}
                   IN  /\ Concat(segments) = route
                       /\ \A i \in 1 .. Len(segments) : Len(segments[i]) > 0
                       /\ \A k \in 1 .. Len(route) :
                              k \in ends <=>
                                  \/ k = Len(route)
                                  \/ Cardinality(RoutesTouching(data, route[k].coordinates[2],
                                                                overlapRadius)) >= 2

\* Randomized: a route of two sub-segments, the first closed at an
\* intersection point by a feature that does not start at one.
C16_Witness ==
    /\ pc = "randomized"
    /\ LET rs == routeSegments(processedHeatmapData, overlapRadius)
       IN  \E routeId \in DOMAIN rs :
               /\ Len(rs[routeId]) = 2
               /\ Cardinality(RoutesTouching(processedHeatmapData,
                      rs[routeId][1][1].coordinates[1], overlapRadius)) = 1

\* =============================================== randomizeIntensities, called
\* Features randomizeIntensities may be called with: ids and route ids as
\* the converters write them, and one feature with the id NaN.
CallFeatures ==
    LET feature(id, routeId, p1, p2) ==
            [id |-> id, intensity |-> 1, density |-> 1, routeId |-> routeId,
             trackId |-> 0, segmentId |-> 0, coordinates |-> <<p1, p2>>]
    IN  { feature(<<0, 0, 0>>, 0, PointB, PointA),
          feature(NaN, 0, PointB, PointB),
          feature(<<1, 0, 0>>, 1, PointA, PointA),
          feature(<<1, 0, 1>>, 1, PointA, PointB) }

\* No argument has been chosen.
InitCall ==
    /\ routes = <<>>
    /\ pc = "arguments"
    /\ compactFeatures = <<>>
    /\ originalHeatmapData = <<>>
    /\ overlapRadius = DefaultOverlapRadius
    /\ maxDensity = DefaultMaxDensity
    /\ processedHeatmapData = <<>>
    /\ dataToUse = <<>>
    /\ intensities = EmptyMap
    /\ InitLoader
    /\ InitEffect

\* The data argument gets a further feature.
PushFeature(feature) ==
    /\ pc = "arguments"
    /\ \A n \in 1 .. Len(processedHeatmapData) : processedHeatmapData[n] # feature
    /\ processedHeatmapData' = Append(processedHeatmapData, feature)
    /\ UNCHANGED <<routes, pc, compactFeatures, originalHeatmapData, overlapRadius,
                   maxDensity, dataToUse, intensities, loaderVars, effectVars>>

\* The precision and densityCap arguments are chosen.
ChooseArguments(precision, densityCap) ==
    /\ pc = "arguments"
    /\ overlapRadius' = precision
    /\ maxDensity' = densityCap
    /\ pc' = "processed"
    /\ UNCHANGED <<routes, compactFeatures, originalHeatmapData, processedHeatmapData,
                   dataToUse, intensities, loaderVars, effectVars>>

NextCall ==
    \/ \E feature \in CallFeatures : PushFeature(feature)
    \/ \E precision \in Precisions, densityCap \in Caps :
           ChooseArguments(precision, densityCap)
    \/ Randomize

SpecCall == InitCall /\ [][NextCall]_vars

\* --------------------------------------------------------------- claim C17
\* The feature at index n of the data is not found in any sub-segment of its
\* route.
Unmatched(n) ==
    LET feature == processedHeatmapData[n]
        segments == routeSegments(processedHeatmapData, overlapRadius)[feature.routeId]
    IN  \A i \in 1 .. Len(segments) :
            \A j \in 1 .. Len(segments[i]) : ~StrictEquals(segments[i][j].id, feature.id)

RoundIdempotent(v, precision) ==
    RoundCoord(RoundCoord(v, precision), precision) = RoundCoord(v, precision)

\* C21: re-aggregation round trip.  Rounding a rounded coordinate at the same
\* precision returns it unchanged, and reprocessWithRadius with precision
\* 10000 and cap 10, applied to the features loaded from the generator's
\* compact output, gives every feature the intensity the generator stored,
\* min(density, 10) at precision 10000; so does the app once the radius
\* 10000 and the cap 10 are selected and the recomputation has run.
C21_RoundTrip ==
    /\ \A precision \in Precisions \cup {GeneratorPrecision} :
           \A point \in Pool \cup EndPoints(originalHeatmapData) :
               /\ RoundIdempotent(point.lat, precision)
               /\ RoundIdempotent(point.lon, precision)
    /\ LET loaded == loadStaticHeatmapData(compactFeatures)
           again == reprocessWithRadius(loaded, GeneratorPrecision, GeneratorCap)
       IN  /\ Len(again) = Len(compactFeatures)
           /\ \A n \in 1 .. Len(compactFeatures) :
                  /\ again[n].intensity = compactFeatures[n][5]
                  /\ again[n].intensity
                         = Min(BucketCount(loaded, n, GeneratorPrecision), GeneratorCap)
    /\ (/\ pc # "file" /\ timers = <<>>
        /\ overlapRadius = GeneratorPrecision /\ maxDensity = GeneratorCap)
           => \A n \in 1 .. Len(compactFeatures) :
                  processedHeatmapData[n].intensity = compactFeatures[n][5]

\* The radius 10000 and the cap 10 are selected and the recomputation has
\* run over a file whose coordinates the generator rounded and one of whose
\* segments is used more often than the cap: density 11, stored and
\* recomputed intensity 10.
C21_Witness ==
    /\ pc = "processed" /\ timers = <<>>
    /\ overlapRadius = GeneratorPrecision /\ maxDensity = GeneratorCap
    /\ \E n \in 1 .. Len(processedHeatmapData) :
           /\ processedHeatmapData[n].density = GeneratorCap + 1
           /\ processedHeatmapData[n].intensity = GeneratorCap
           /\ compactFeatures[n][5] = GeneratorCap
           /\ processedHeatmapData[n].coordinates[1].lat # routes[1][1][n].lat

\* --------------------------------------------------------------- claim C22
\* Each feature of the route starts where the previous one ends.
Contiguous(route) ==
    \A n \in 2 .. Len(route) : route[n].coordinates[1] = route[n - 1].coordinates[2]

\* Some endpoint of a feature of the route is an intersection point.
TouchesIntersection(route, ips, precision) ==
    \E n \in 1 .. Len(route), c \in 1 .. 2 :
        pointKey(route[n].coordinates[c], precision) \in ips

\* C22: route-level uniformity of the Randomized Policy.  For a route whose
\* features are contiguous: if some endpoint of the route is an intersection
\* point, every sub-segment and every feature of the route gets an intensity
\* of at least min(2, densityCap); if none is, every one gets intensity 1.
\* Such a route never has a sub-segment of intensity 1 next to one of a
\* higher intensity.
C22_RouteUniformity ==
    pc = "randomized" =>
        LET data == processedHeatmapData
            groups == routeGroups(data)
            ips == intersectionPoints(pointToRoutes(data, overlapRadius))
            rs == routeSegments(data, overlapRadius)
        IN  \A routeId \in DOMAIN groups :
                Contiguous(groups[routeId]) =>
                    LET expected(intensity) ==
                            IF TouchesIntersection(groups[routeId], ips, overlapRadius)
                            THEN intensity >= Min(2, maxDensity)
                            ELSE intensity = 1
                    IN  /\ \A i \in 1 .. Len(rs[routeId]) :
                               expected(intensities[<<routeId, i - 1>>])
                        /\ \A n \in 1 .. Len(dataToUse) :
                               dataToUse[n].routeId = routeId
                                   => expected(dataToUse[n].intensity)
                        /\ \A i \in 1 .. Len(rs[routeId]), j \in 1 .. Len(rs[routeId]) :
                               intensities[<<routeId, i - 1>>] = 1
                                   => intensities[<<routeId, j - 1>>] <= 1

\* Randomized with a cap above 1: a contiguous route of two sub-segments, cut
\* at an intersection point, whose last feature ends at a point of this route
\* alone and still gets intensity 2.
C22_Witness ==
    /\ pc = "randomized"
    /\ maxDensity > 1
    /\ LET data == processedHeatmapData
           groups == routeGroups(data)
           ptr == pointToRoutes(data, overlapRadius)
           rs == routeSegments(data, overlapRadius)
       IN  \E routeId \in DOMAIN groups :
               /\ Contiguous(groups[routeId])
               /\ Len(rs[routeId]) = 2
               /\ \E n \in 1 .. Len(dataToUse) :
                      /\ dataToUse[n].routeId = routeId
                      /\ dataToUse[n].id = rs[routeId][2][Len(rs[routeId][2])].id
                      /\ Cardinality(ptr[pointKey(dataToUse[n].coordinates[2],
                                                  overlapRadius)]) = 1
                      /\ dataToUse[n].intensity = 2

\* ================================================================= unmount
\* What map.current.getSource('hiking-routes') may do on a map that has been
\* removed: the map object is still in map.current, and the library decides.
GetSourceOutcomes == {"throws", "undefined", "source"}

\* The calls a timer callback makes on a removed map, by what getSource
\* does there: setProcessedHeatmapData comes before the map is looked at,
\* setData and setIsProcessing(false) after.
callbackCalls(outcome) ==
    {"setProcessedHeatmapData", "getSource"}
        \cup (IF outcome = "source" THEN {"setData"} ELSE {})
        \cup (IF outcome = "throws" THEN {} ELSE {"setIsProcessing"})

\* The cleanup of the map effect on unmount: clearTimeout(zoomTimeoutRef.current)
\* and map.current?.remove().  The recompute timers are left pending.
Unmount ==
    /\ ~unmounted
    /\ unmounted' = TRUE
    /\ UNCHANGED <<dataVars, loaderVars, randomizeIntensity, isProcessing, timers, lateCalls>>

\* The oldest pending timer fires after the cleanup.  The state updates of an
\* unmounted component are dropped and the map shows nothing any more.
TimerFiresUnmounted(outcome) ==
    /\ unmounted
    /\ timers # <<>>
    /\ timers' = Tail(timers)
    /\ lateCalls' = lateCalls \cup callbackCalls(outcome)
    /\ UNCHANGED <<dataVars, loaderVars, randomizeIntensity, isProcessing, unmounted>>

\* The app until it is unmounted, and its timers after.
NextUnmount ==
    \/ ~unmounted /\ NextApp
    \/ Unmount
    \/ \E outcome \in GetSourceOutcomes : TimerFiresUnmounted(outcome)

SpecUnmount == InitApp /\ [][NextUnmount]_vars

\* --------------------------------------------------------------- claim C23
\* C23: after the cleanup has run, no recompute callback that was pending
\* calls getSource or setData on the removed map or a state setter of the
\* component: a timer scheduled before unmount never fires its update after.
C23_NoCallbackAfterUnmount ==
    unmounted => lateCalls = {}

\* What holds instead: the cleanup leaves the pending timers as they are, and
\* each one that fires afterwards calls setProcessedHeatmapData and getSource
\* on the removed map.
C23_TimersOutliveUnmount ==
    /\ [][(unmounted' /\ ~unmounted) => timers' = timers]_vars
    /\ [][(unmounted /\ timers' # timers)
             => {"setProcessedHeatmapData", "getSource"} \subseteq lateCalls']_vars

\* A recomputation was scheduled, the component was unmounted while it was
\* pending, and the callback has run on the removed map.
C23_Witness ==
    /\ unmounted
    /\ timers = <<>>
    /\ isProcessing
    /\ "getSource" \in lateCalls
====
